---- MODULE Spec2Model ----
(***************************************************************************)
(* A model of eliottree/render.py: the projection of Eliot task trees onto *)
(* the (name, children) callbacks of a tree pretty-printer, the value      *)
(* formatter pipeline and the render driver.                               *)
(*                                                                         *)
(* Text is a sequence of code points, binary data a sequence of bytes.     *)
(* Every Python value is a record tagged by "kind":                        *)
(*   text   [kind, s]          bytes [kind, b]       int  [kind, n]        *)
(*   dict   [kind, items]      items: <<key, value>> pairs, insertion order*)
(*   tuple  [kind, k, v]       a pair (task[0], task[1])                   *)
(*   task   [kind, name, success, task, children]    a _TaskNode           *)
(*   none   [kind]             None                                        *)
(*   raise  [kind, exc]        the call ended by raising exc               *)
(***************************************************************************)
EXTENDS Integers, Sequences, FiniteSets, TLC

VARIABLES pc, cfg, nodes, idx, stack, trace, out, arg, res

vars == <<pc, cfg, nodes, idx, stack, trace, out, arg, res>>

(***************************************************************************)
(* Bounds of the model.                                                    *)
(***************************************************************************)
MaxEscapeLen == 2
MaxValueLen == 3
MaxLimit == 2
MaxProps == 2
MaxRoots == 2

(***************************************************************************)
(* Values.                                                                 *)
(***************************************************************************)
Text(s) == [kind |-> "text", s |-> s]
Bytes(b) == [kind |-> "bytes", b |-> b]
Number(n) == [kind |-> "int", n |-> n]
Dict(items) == [kind |-> "dict", items |-> items]
Tuple(k, v) == [kind |-> "tuple", k |-> k, v |-> v]
TaskNode(name, success, task, children) ==
    [kind |-> "task", name |-> name, success |-> success, task |-> task,
     children |-> children]
None == [kind |-> "none"]
Raise(exc) == [kind |-> "raise", exc |-> exc]

SeqsUpTo(S, n) == UNION {[1..k -> S] : k \in 0..n}

RECURSIVE Digits(_)
Digits(n) == IF n < 10 THEN <<48 + n>> ELSE Digits(n \div 10) \o <<48 + (n % 10)>>

\* six.text_type(s): text is kept, a number becomes its decimal digits.
text_type(v) ==
    CASE v.kind = "text" -> v.s
      [] v.kind = "int" -> Digits(v.n)

\* Text ordering of Python: code point by code point, a prefix first.
RECURSIVE TextLess(_, _)
TextLess(a, b) ==
    IF b = <<>> THEN FALSE
    ELSE IF a = <<>> THEN TRUE
    ELSE IF Head(a) # Head(b) THEN Head(a) < Head(b)
    ELSE TextLess(Tail(a), Tail(b))

(***************************************************************************)
(* Control-character escaping.                                             *)
(***************************************************************************)
control_equivalents ==
    [i \in (0..31) \cup {127} |->
        IF i = 10 THEN 10 ELSE IF i = 127 THEN 9249 ELSE 9216 + i]

\* text.translate(table): a code point the table has is replaced, others kept.
Translate(s, table) ==
    [i \in 1..Len(s) |-> IF s[i] \in DOMAIN table THEN table[s[i]] ELSE s[i]]

\* A plausible slip: line feed and delete are escaped like the other controls.
_escape_control_characters_LfEscaped(s) ==
    LET t == text_type(s)
    IN  [i \in 1..Len(t) |-> IF t[i] < 32 \/ t[i] = 127 THEN 9216 + t[i] ELSE t[i]]

_escape_control_characters(s) == Translate(text_type(s), control_equivalents)

(***************************************************************************)
(* Encodings: text <-> bytes.                                              *)
(***************************************************************************)
Encodings == {"utf-8", "latin-1", "utf-16"}

\* bytes.decode("utf-8", "replace") for bytes below 0xE0 and above 0xF4:
\* an ASCII byte is itself, a two-byte sequence one code point, and every
\* other byte one U+FFFD.
RECURSIVE DecodeUtf8(_)
DecodeUtf8(b) ==
    IF b = <<>> THEN <<>>
    ELSE IF Head(b) < 128 THEN <<Head(b)>> \o DecodeUtf8(Tail(b))
    ELSE IF Head(b) \in 194..223 /\ Len(b) >= 2 /\ b[2] \in 128..191
         THEN <<(Head(b) - 192) * 64 + (b[2] - 128)>> \o DecodeUtf8(Tail(Tail(b)))
    ELSE <<65533>> \o DecodeUtf8(Tail(b))

\* bytes.decode("utf-16", "replace") for data without a byte order mark and
\* without surrogates: little-endian 16-bit units, a trailing odd byte is
\* one U+FFFD.
RECURSIVE DecodeUtf16(_)
DecodeUtf16(b) ==
    IF b = <<>> THEN <<>>
    ELSE IF Len(b) = 1 THEN <<65533>>
    ELSE <<b[1] + 256 * b[2]>> \o DecodeUtf16(Tail(Tail(b)))

\* bytes.decode(encoding, "replace"); latin-1 maps every byte to its code point.
Decode(b, encoding) ==
    IF encoding = "utf-8" THEN DecodeUtf8(b)
    ELSE IF encoding = "utf-16" THEN DecodeUtf16(b)
    ELSE b

EncodeUtf8Point(c) ==
    IF c < 128 THEN <<c>>
    ELSE IF c < 2048 THEN <<192 + (c \div 64), 128 + (c % 64)>>
    ELSE <<224 + (c \div 4096), 128 + ((c \div 64) % 64), 128 + (c % 64)>>

RECURSIVE EncodeUtf8(_)
EncodeUtf8(s) ==
    IF s = <<>> THEN <<>>
    ELSE IF Len(s) = 1 THEN EncodeUtf8Point(s[1])
    ELSE EncodeUtf8(SubSeq(s, 1, Len(s) \div 2))
         \o EncodeUtf8(SubSeq(s, Len(s) \div 2 + 1, Len(s)))

\* Little-endian 16-bit units.
EncodeUtf16Units(s) ==
    [i \in 1..(2 * Len(s)) |->
        IF i % 2 = 1 THEN s[(i + 1) \div 2] % 256 ELSE s[i \div 2] \div 256]

\* text.encode(encoding), strict, for code points of the basic plane:
\* utf-16 starts every result with the byte order mark FF FE; latin-1 has no
\* byte for a code point above 0xFF and raises.
Encode(s, encoding) ==
    IF encoding = "utf-8" THEN Bytes(EncodeUtf8(s))
    ELSE IF encoding = "utf-16" THEN Bytes(<<255, 254>> \o EncodeUtf16Units(s))
    ELSE IF \A i \in 1..Len(s) : s[i] < 256 THEN Bytes(s)
    ELSE Raise("UnicodeEncodeError")

(***************************************************************************)
(* The value formatter pipeline.                                           *)
(***************************************************************************)
KeyTimestamp == <<116, 105, 109, 101, 115, 116, 97, 109, 112>>

TwoDigits(n) == <<48 + (n \div 10), 48 + (n % 10)>>

\* format.timestamp(): seconds since the epoch (below one hour) as a
\* calendar string, "1970-01-01 00:MM:SS".
format_timestamp(value) ==
    Text(<<49, 57, 55, 48, 45, 48, 49, 45, 48, 49, 32, 48, 48, 58>>
         \o TwoDigits(value.n \div 60) \o <<58>> \o TwoDigits(value.n % 60))

\* format.fields(fields): the converter of a recognized field, else None.
format_fields(fields, value, key) ==
    IF key \in fields THEN format_timestamp(value) ELSE None

\* format.text(): text is returned unchanged, anything else is None.
format_text(value) == IF value.kind = "text" THEN value ELSE None

\* format.binary(encoding): bytes are decoded, undecodable bytes replaced.
format_binary(encoding, value) ==
    IF value.kind = "bytes" THEN Text(Decode(value.b, encoding)) ELSE None

\* format.anything(encoding): the text representation of any other value.
format_anything(encoding, value) ==
    IF value.kind = "bytes" THEN Text(Decode(value.b, encoding))
    ELSE Text(text_type(value))

\* format.truncate_value(limit, value): a text longer than limit is cut to
\* limit characters and gets the truncation marker U+2026.
truncate_value(limit, value) ==
    IF Len(value.s) > limit
    THEN Text(SubSeq(value.s, 1, limit) \o <<8230>>)
    ELSE value

\* some(*fs): the first result that is not None, None when there is none.
RECURSIVE some(_)
some(results) ==
    IF results = <<>> THEN None
    ELSE IF Head(results) # None THEN Head(results)
    ELSE some(Tail(results))

\* The dispatch stage of the formatter: some(fields, text, binary, anything).
dispatch(human_readable, encoding, value, key) ==
    LET fields == IF human_readable THEN {KeyTimestamp} ELSE {}
    IN  some(<<format_fields(fields, value, key),
               format_text(value),
               format_binary(encoding, value),
               format_anything(encoding, value)>>)

\* A plausible slip: the limit is never applied.
_default_value_formatter_NoTruncate(human_readable, field_limit, encoding, value, key) ==
    Text(_escape_control_characters(dispatch(human_readable, encoding, value, key)))

\* __default_value_formatter(human_readable, field_limit, encoding)(value, key):
\* compose(escape, truncate if field_limit else identity, some(...)).
_default_value_formatter(human_readable, field_limit, encoding, value, key) ==
    LET dispatched == dispatch(human_readable, encoding, value, key)
        truncated == IF field_limit # 0
                     THEN truncate_value(field_limit, dispatched)
                     ELSE dispatched
    IN  Text(_escape_control_characters(truncated))

(***************************************************************************)
(* The color palette.                                                      *)
(***************************************************************************)
_no_color(text) == text

AnsiCode(n) == <<27, 91>> \o Digits(n) \o <<109>>

\* termcolor.colored(text, color, attrs=attrs): the color code is put in
\* front, then each attribute code in front of that, and a reset at the end.
RECURSIVE AttrPrefix(_)
AttrPrefix(attrs) ==
    IF attrs = <<>> THEN <<>> ELSE AttrPrefix(Tail(attrs)) \o AnsiCode(Head(attrs))

colored(text, color, attrs) ==
    AttrPrefix(attrs) \o AnsiCode(color) \o text \o AnsiCode(0)

\* Color.__get__ on COLORS(colored if colorize else _no_color).
Color(colorize, text, color, attrs) ==
    IF colorize THEN colored(text, color, attrs) ELSE _no_color(text)

colors_root(colorize, text) == Color(colorize, text, 37, <<1>>)
colors_success(colorize, text) == Color(colorize, text, 32, <<>>)
colors_failure(colorize, text) == Color(colorize, text, 31, <<>>)
colors_prop(colorize, text) == Color(colorize, text, 34, <<>>)

(***************************************************************************)
(* get_name.                                                               *)
(***************************************************************************)
\* Only a _TaskNode has the attributes name, success, task and children.
HasTaskAttributes(task) == task.kind = "task"

\* A plausible slip: the task's name takes the root role whatever its flag.
get_name_RootRole(colorize, task) ==
    IF task.kind = "text" THEN Text(_escape_control_characters(task))
    ELSE IF task.kind = "tuple" THEN
        LET name == _escape_control_characters(Text(task.k))
        IN  IF task.v.kind = "dict" THEN Text(name)
            ELSE IF task.v.kind = "text"
                 THEN Text(colors_prop(colorize, name) \o <<58, 32>> \o task.v.s)
            ELSE Text(colors_root(colorize, name))
    ELSE IF ~HasTaskAttributes(task) THEN Raise("AttributeError")
    ELSE Text(colors_root(colorize, _escape_control_characters(Text(task.name))))

\* A plausible slip: a pair is named only when it holds a nested record or
\* text, and refused otherwise.
get_name_PairRefused(colorize, task) ==
    IF task.kind = "text" THEN Text(_escape_control_characters(task))
    ELSE IF task.kind = "tuple" THEN
        LET name == _escape_control_characters(Text(task.k))
        IN  IF task.v.kind = "dict" THEN Text(name)
            ELSE IF task.v.kind = "text"
                 THEN Text(colors_prop(colorize, name) \o <<58, 32>> \o task.v.s)
            ELSE Raise("AttributeError")
    ELSE IF ~HasTaskAttributes(task) THEN Raise("AttributeError")
    ELSE LET name == _escape_control_characters(Text(task.name))
         IN  IF task.success = "True" THEN Text(colors_success(colorize, name))
             ELSE IF task.success = "False" THEN Text(colors_failure(colorize, name))
             ELSE Text(name)

get_name(colorize, task) ==
    IF task.kind = "text" THEN Text(_escape_control_characters(task))
    ELSE IF task.kind = "tuple" THEN
        LET name == _escape_control_characters(Text(task.k))
        IN  IF task.v.kind = "dict" THEN Text(name)
            ELSE IF task.v.kind = "text"
                 THEN Text(colors_prop(colorize, name) \o <<58, 32>> \o task.v.s)
            ELSE Text(colors_root(colorize, name))
    ELSE IF ~HasTaskAttributes(task) THEN Raise("AttributeError")
    ELSE LET name == _escape_control_characters(Text(task.name))
         IN  IF task.success = "True" THEN Text(colors_success(colorize, name))
             ELSE IF task.success = "False" THEN Text(colors_failure(colorize, name))
             ELSE Text(name)

(***************************************************************************)
(* get_children.                                                           *)
(***************************************************************************)
List(xs) == [kind |-> "list", items |-> xs]

\* sorted(items) on the (key, value) pairs of a mapping: the keys are
\* distinct, so the pairs are ordered by key alone.
RECURSIVE InsertItem(_, _)
InsertItem(item, s) ==
    IF s = <<>> THEN <<item>>
    ELSE IF TextLess(item[1], Head(s)[1]) THEN <<item>> \o s
    ELSE <<Head(s)>> \o InsertItem(item, Tail(s))

RECURSIVE sorted(_)
sorted(items) ==
    IF items = <<>> THEN <<>> ELSE InsertItem(Head(items), sorted(Tail(items)))

\* The formatter a get_children closure holds: (value, key) -> text.
format_value(fv, value, key) ==
    _default_value_formatter(fv.human_readable, fv.field_limit, fv.encoding, value, key)

RECURSIVE ItemsChildrenOf(_, _, _)
ItemsChildrenOf(s, ignored_task_keys, fv) ==
    IF s = <<>> THEN <<>>
    ELSE LET key == Head(s)[1]
             value == Head(s)[2]
             rest == ItemsChildrenOf(Tail(s), ignored_task_keys, fv)
         IN  IF key \in ignored_task_keys THEN rest
             ELSE IF value.kind = "dict" THEN <<Tuple(key, value)>> \o rest
             ELSE <<Tuple(key, format_value(fv, value, key))>> \o rest

\* A plausible slip: the pairs are taken in the mapping's own order.
items_children_Unsorted(items, ignored_task_keys, fv) ==
    ItemsChildrenOf(items, ignored_task_keys, fv)

\* A plausible slip: the ignored keys are not filtered out.
items_children_Unfiltered(items, ignored_task_keys, fv) ==
    ItemsChildrenOf(sorted(items), {}, fv)

items_children(items, ignored_task_keys, fv) ==
    ItemsChildrenOf(sorted(items), ignored_task_keys, fv)

\* The (key, value) pairs items_children hands to format_value, in order.
RECURSIVE FormatCallsOf(_, _)
FormatCallsOf(s, ignored_task_keys) ==
    IF s = <<>> THEN <<>>
    ELSE LET rest == FormatCallsOf(Tail(s), ignored_task_keys)
         IN  IF Head(s)[1] \in ignored_task_keys \/ Head(s)[2].kind = "dict"
             THEN rest ELSE <<Head(s)>> \o rest

\* A plausible slip: a pair with a text value yields the text as a child.
get_children_TextExpanded(ignored_task_keys, fv, task) ==
    IF task.kind = "text" THEN List(<<>>)
    ELSE IF task.kind = "tuple" THEN
        IF task.v.kind = "dict"
        THEN List(items_children(task.v.items, ignored_task_keys, fv))
        ELSE List(<<task.v>>)
    ELSE IF ~HasTaskAttributes(task) THEN Raise("AttributeError")
    ELSE List(items_children(task.task, ignored_task_keys, fv) \o task.children)

get_children(ignored_task_keys, fv, task) ==
    IF task.kind = "text" THEN List(<<>>)
    ELSE IF task.kind = "tuple" THEN
        IF task.v.kind = "dict"
        THEN List(items_children(task.v.items, ignored_task_keys, fv))
        ELSE IF task.v.kind = "text" THEN List(<<>>)
        ELSE List(<<task.v>>)
    ELSE IF ~HasTaskAttributes(task) THEN Raise("AttributeError")
    ELSE List(items_children(task.task, ignored_task_keys, fv) \o task.children)

\* The format_value calls one get_children(task) makes.
FormatCalls(ignored_task_keys, task) ==
    IF task.kind = "tuple" /\ task.v.kind = "dict"
    THEN FormatCallsOf(sorted(task.v.items), ignored_task_keys)
    ELSE IF task.kind = "task"
    THEN FormatCallsOf(sorted(task.task), ignored_task_keys)
    ELSE <<>>

(***************************************************************************)
(* The tree pretty-printer, tree_format.format_tree(root, get_name,        *)
(* get_children): a pre-order walk that calls get_name and get_children    *)
(* once on every node and draws one line per node.                         *)
(***************************************************************************)
DEFAULT_IGNORED_KEYS ==
    { <<97, 99, 116, 105, 111, 110, 95, 115, 116, 97, 116, 117, 115>>,
      <<97, 99, 116, 105, 111, 110, 95, 116, 121, 112, 101>>,
      <<116, 97, 115, 107, 95, 108, 101, 118, 101, 108>>,
      <<116, 97, 115, 107, 95, 117, 117, 105, 100>>,
      <<109, 101, 115, 115, 97, 103, 101, 95, 116, 121, 112, 101>> }

\* if ignored_task_keys is None: ignored_task_keys = DEFAULT_IGNORED_KEYS
IgnoredKeys(c) ==
    IF c.ignored_task_keys = None THEN DEFAULT_IGNORED_KEYS
    ELSE c.ignored_task_keys.elems

\* format_value = _default_value_formatter(human_readable=..., field_limit=...):
\* no encoding is passed, so the parameter's default "utf-8" is used.
RenderFormatter(c) ==
    [human_readable |-> c.human_readable, field_limit |-> c.field_limit,
     encoding |-> "utf-8"]

\* A plausible slip: the task of the pair is handed over as the root.
RootFrame_TaskAsRoot(root) ==
    [node |-> root.v, lead |-> <<>>, prefix |-> <<>>, depth |-> 0, parent |-> 0]

\* format_tree(root, ...): the walk starts at the root itself.
RootFrame(root) ==
    [node |-> root, lead |-> <<>>, prefix |-> <<>>, depth |-> 0, parent |-> 0]

\* The frames of a node's children: all but the last are drawn with a fork
\* and continue the vertical bar, the last with a corner.
ChildFrames(children, prefix, depth, parent) ==
    [i \in 1..Len(children) |->
        [node |-> children[i],
         lead |-> prefix \o (IF i < Len(children) THEN <<9500>> ELSE <<9492>>)
                         \o <<9472, 9472, 32>>,
         prefix |-> prefix \o (IF i < Len(children) THEN <<9474, 32, 32, 32>>
                                                      ELSE <<32, 32, 32, 32>>),
         depth |-> depth + 1,
         parent |-> parent]]

\* The walk from a stack of frames: the visited nodes in order, each with
\* the name and the children the callbacks returned, and the node a callback
\* raised on (None when the walk ended normally).
RECURSIVE Walk(_, _, _, _)
Walk(c, root, frames, visited) ==
    IF frames = <<>> THEN [visited |-> visited, raised |-> None]
    ELSE LET f == Head(frames)
             name == get_name(c.colorize, f.node)
             kids == IF name.kind = "raise" THEN name
                     ELSE get_children(IgnoredKeys(c), RenderFormatter(c), f.node)
         IN  IF kids.kind = "raise"
             THEN [visited |-> visited,
                   raised |-> [node |-> f.node, exc |-> kids.exc]]
             ELSE Walk(c, root,
                       ChildFrames(kids.items, f.prefix, f.depth, Len(visited) + 1)
                           \o Tail(frames),
                       Append(visited,
                              [root |-> root, node |-> f.node, name |-> name,
                               children |-> kids.items,
                               calls |-> FormatCalls(IgnoredKeys(c), f.node),
                               depth |-> f.depth, parent |-> f.parent,
                               line |-> f.lead \o name.s]))

\* "\n".join(lines + [""]): every line is followed by a line feed.
RECURSIVE JoinLines(_)
JoinLines(visited) ==
    IF visited = <<>> THEN <<>>
    ELSE Head(visited).line \o <<10>> \o JoinLines(Tail(visited))

\* write of render_task_nodes_unicode, and of render_task_nodes:
\* lambda value: write(value.encode(encoding)).
Write(c, text) ==
    IF c.fn = "render_task_nodes" THEN Encode(text, c.encoding) ELSE Text(text)

(***************************************************************************)
(* Inputs.                                                                 *)
(***************************************************************************)
KeyA == <<65>>
KeyB == <<66, 7>>
KeyTaskUuid == <<116, 97, 115, 107, 95, 117, 117, 105, 100>>
NameT == <<84, 27>>
Identifier == <<105, 100, 8>>

SampleText == Text(<<120, 27, 10, 121>>)
SampleBytes == Bytes(<<195, 169, 255, 65>>)
SampleNumber == Number(7)
SampleInner == Dict(<< <<KeyTaskUuid, SampleNumber>>, <<KeyA, SampleBytes>> >>)
SampleNested ==
    Dict(<< <<KeyB, SampleInner>>, <<KeyTaskUuid, SampleText>>, <<KeyA, SampleBytes>> >>)

Success == {"True", "False", "None"}

Sub1 == TaskNode(<<115, 49>>, "False", << <<KeyA, SampleText>> >>, <<>>)
Sub2 == TaskNode(<<115, 50>>, "None", <<>>, <<>>)
Sub3 == TaskNode(<<115, 51, 127>>, "True", <<>>, <<>>)

\* The roots a render call is given: (identifier, _TaskNode) pairs, and two
\* inputs that break the contract (a sub-task that is no node, a pair that
\* holds binary data).
Roots ==
    { Tuple(Identifier,
            TaskNode(NameT, "True",
                     << <<KeyB, SampleNested>>, <<KeyTaskUuid, SampleInner>>,
                        <<KeyA, SampleText>> >>,
                     <<Sub2, Sub1>>)),
      Tuple(Identifier,
            TaskNode(NameT, "False",
                     << <<KeyTimestamp, Number(5)>>, <<KeyA, SampleBytes>> >>, <<>>)),
      Tuple(Identifier, TaskNode(NameT, "None", <<>>, <<Sub3>>)),
      Tuple(KeyA, TaskNode(NameT, "True", << <<KeyA, SampleNumber>> >>,
                           <<Sub2, SampleNumber>>)),
      Tuple(KeyA, SampleBytes) }

IgnoredChoices == {None, [kind |-> "set", elems |-> {}], [kind |-> "set", elems |-> {KeyA}]}

\* The arguments of render_task_nodes_unicode and of render_task_nodes.
RenderConfigs ==
    [fn : {"render_task_nodes_unicode"}, encoding : {"n/a"},
     field_limit : {0, MaxLimit}, ignored_task_keys : IgnoredChoices,
     human_readable : BOOLEAN, colorize : BOOLEAN]
    \cup
    [fn : {"render_task_nodes"}, encoding : Encodings,
     field_limit : {0, MaxLimit}, ignored_task_keys : IgnoredChoices,
     human_readable : BOOLEAN, colorize : BOOLEAN]

(***************************************************************************)
(* render_task_nodes_unicode / render_task_nodes.                          *)
(***************************************************************************)
Init ==
    /\ pc = "start"
    /\ cfg \in RenderConfigs
    /\ nodes \in SeqsUpTo(Roots, MaxRoots)
    /\ idx = 0
    /\ stack = <<>>
    /\ trace = <<>>
    /\ out = <<>>
    /\ arg = None
    /\ res = None

\* The call up to the loop: the closures are built, the first root is taken.
Start ==
    /\ pc = "start"
    /\ IF nodes = <<>>
       THEN pc' = "done" /\ UNCHANGED <<idx, stack>>
       ELSE pc' = "tree" /\ idx' = 1 /\ stack' = <<RootFrame(nodes[1])>>
    /\ UNCHANGED <<cfg, nodes, trace, out, arg, res>>

\* write(format_tree(root, get_name, get_children)). When format_tree raises
\* (a callback raised) or write raises (the block cannot be encoded), the
\* exception leaves the render call and nothing is written.
WriteBlock ==
    /\ pc = "tree"
    /\ \E w \in {Walk(cfg, idx, stack, trace)} :
       \E chunk \in {Write(cfg, JoinLines(SubSeq(w.visited, Len(trace) + 1,
                                                  Len(w.visited))))} :
          /\ trace' = w.visited
          /\ IF w.raised # None
             THEN /\ pc' = "raised"
                  /\ res' = [fn |-> "format_tree", node |-> w.raised.node,
                             exc |-> w.raised.exc]
                  /\ out' = out
             ELSE IF chunk.kind = "raise"
             THEN /\ pc' = "raised"
                  /\ res' = [fn |-> "write", node |-> nodes[idx], exc |-> chunk.exc]
                  /\ out' = out
             ELSE /\ pc' = "newline"
                  /\ res' = res
                  /\ out' = Append(out, chunk)
    /\ stack' = <<>>
    /\ UNCHANGED <<cfg, nodes, idx, arg>>

\* A plausible slip: the separator is written before the next block only.
WriteNewline_NoneAfterLast ==
    /\ pc = "newline"
    /\ IF idx < Len(nodes)
       THEN /\ out' = Append(out, Write(cfg, <<10>>))
            /\ idx' = idx + 1
            /\ stack' = <<RootFrame(nodes[idx + 1])>>
            /\ pc' = "tree"
       ELSE pc' = "done" /\ UNCHANGED <<idx, stack, out>>
    /\ UNCHANGED <<cfg, nodes, trace, arg, res>>

\* write(u'\n'), and the loop goes on to the next root.
WriteNewline ==
    /\ pc = "newline"
    /\ out' = Append(out, Write(cfg, <<10>>))
    /\ IF idx < Len(nodes)
       THEN idx' = idx + 1 /\ stack' = <<RootFrame(nodes[idx + 1])>> /\ pc' = "tree"
       ELSE pc' = "done" /\ UNCHANGED <<idx, stack>>
    /\ UNCHANGED <<cfg, nodes, trace, arg, res>>

Next == Start \/ WriteBlock \/ WriteNewline

Spec == Init /\ [][Next]_vars

(***************************************************************************)
(* get_name and get_children applied to one node.                          *)
(***************************************************************************)
NodeKeys == {KeyA, KeyB, KeyTaskUuid}
PropValues == {SampleText, SampleNumber, SampleInner}

\* The mappings of up to MaxProps keys, in every insertion order.
NodeItems ==
    UNION { { [i \in 1..Len(ks) |-> <<ks[i], f[i]>>] :
                f \in [1..Len(ks) -> PropValues] } :
            ks \in { k \in SeqsUpTo(NodeKeys, MaxProps) :
                       \A i, j \in 1..Len(k) : i # j => k[i] # k[j] } }

NodeKids == { <<>>, <<Sub1, Sub2>>, <<Sub2, Sub1>> }

NodeSamples ==
    { Text(<<>>), Text(<<76, 7>>) }
    \cup { Tuple(KeyB, Dict(items)) : items \in NodeItems }
    \cup { Tuple(KeyB, v) : v \in {SampleText, SampleBytes, SampleNumber, Sub1} }
    \cup { TaskNode(NameT, s, items, kids) :
             s \in Success, items \in NodeItems, kids \in NodeKids }
    \cup { SampleNumber, SampleBytes, None, Dict(<<>>) }

NodeConfigs ==
    [fn : {"render_task_nodes_unicode"}, encoding : {"n/a"},
     field_limit : {0, MaxLimit}, ignored_task_keys : IgnoredChoices,
     human_readable : {FALSE}, colorize : BOOLEAN]

Idle ==
    /\ nodes = <<>>
    /\ idx = 0
    /\ stack = <<>>
    /\ trace = <<>>
    /\ out = <<>>

InitNode ==
    /\ pc = "call"
    /\ cfg \in NodeConfigs
    /\ arg \in NodeSamples
    /\ res = None
    /\ Idle

CallGetName ==
    /\ pc = "call"
    /\ res' = [fn |-> "get_name", value |-> get_name(cfg.colorize, arg)]
    /\ pc' = "return"
    /\ UNCHANGED <<cfg, nodes, idx, stack, trace, out, arg>>

CallGetChildren ==
    /\ pc = "call"
    /\ res' = [fn |-> "get_children",
               value |-> get_children(IgnoredKeys(cfg), RenderFormatter(cfg), arg)]
    /\ pc' = "return"
    /\ UNCHANGED <<cfg, nodes, idx, stack, trace, out, arg>>

NextNode == CallGetName \/ CallGetChildren

SpecNode == InitNode /\ [][NextNode]_vars

(***************************************************************************)
(* The value formatter applied to one (value, key).                        *)
(***************************************************************************)
FormatChars == {65, 27, 10}
FormatBytes == {65, 195, 169, 255}

FormatValues ==
    { Text(s) : s \in SeqsUpTo(FormatChars, MaxValueLen) }
    \cup { Bytes(b) : b \in SeqsUpTo(FormatBytes, MaxValueLen) }
    \cup { Number(5), Number(1234) }

FormatConfigs ==
    [human_readable : BOOLEAN, field_limit : 0..MaxLimit, encoding : Encodings]

\* A timestamp field holds a number of seconds.
InitFormat ==
    /\ pc = "call"
    /\ cfg \in FormatConfigs
    /\ arg \in [value : FormatValues, key : {KeyA, KeyTimestamp}]
    /\ arg.key = KeyTimestamp => arg.value.kind = "int"
    /\ res = None
    /\ Idle

CallFormatValue ==
    /\ pc = "call"
    /\ res' = _default_value_formatter(cfg.human_readable, cfg.field_limit,
                                       cfg.encoding, arg.value, arg.key)
    /\ pc' = "return"
    /\ UNCHANGED <<cfg, nodes, idx, stack, trace, out, arg>>

NextFormat == CallFormatValue

SpecFormat == InitFormat /\ [][NextFormat]_vars

(***************************************************************************)
(* _escape_control_characters applied to one input.                        *)
(***************************************************************************)
EscapeChars == (0..32) \cup {65, 126, 127, 128, 8230, 9216}

EscapeInputs ==
    { Text(s) : s \in SeqsUpTo(EscapeChars, MaxEscapeLen) }
    \cup { Number(n) : n \in {0, 7, 10, 127} }

InitEscape ==
    /\ pc = "call"
    /\ cfg = None
    /\ arg \in EscapeInputs
    /\ res = None
    /\ Idle

CallEscape ==
    /\ pc = "call"
    /\ res' = Text(_escape_control_characters(arg))
    /\ pc' = "return"
    /\ UNCHANGED <<cfg, nodes, idx, stack, trace, out, arg>>

NextEscape == CallEscape

SpecEscape == InitEscape /\ [][NextEscape]_vars

(***************************************************************************)
(* Properties.                                                             *)
(***************************************************************************)
Range(s) == {s[i] : i \in 1..Len(s)}

\* The visible picture of a control character; any other character itself.
ControlPicture(c) ==
    IF c = 10 THEN c
    ELSE IF c \in 0..31 THEN 9216 + c
    ELSE IF c = 127 THEN 9249
    ELSE c

Escaped(s) == [i \in 1..Len(s) |-> ControlPicture(s[i])]

Reset == <<27, 91, 48, 109>>
InSuccessRole(s) == <<27, 91, 51, 50, 109>> \o s \o Reset
InFailureRole(s) == <<27, 91, 51, 49, 109>> \o s \o Reset
InRootRole(s) == <<27, 91, 49, 109, 27, 91, 51, 55, 109>> \o s \o Reset

StartsWith(s, p) == Len(s) >= Len(p) /\ SubSeq(s, 1, Len(p)) = p

IsNode(n) == n.kind \in {"text", "tuple", "task"}

\* C1: get_children of a TaskNode returns one child per non-ignored key of
\* its property mapping, in strictly ascending key order whatever the
\* insertion order, and after them the sub-tasks in the order children()
\* gave them; get_children of a pair holding a nested record returns one
\* child per non-ignored key in strictly ascending key order.
ChildrenSortedThenSubtasks ==
    (pc = "return" /\ res.fn = "get_children"
        /\ (arg.kind = "task" \/ (arg.kind = "tuple" /\ arg.v.kind = "dict")))
    => LET items == IF arg.kind = "task" THEN arg.task ELSE arg.v.items
           subs == IF arg.kind = "task" THEN arg.children ELSE <<>>
           kept == {items[i][1] : i \in 1..Len(items)} \ IgnoredKeys(cfg)
           np == Cardinality(kept)
           kids == res.value.items
       IN  /\ res.value.kind = "list"
           /\ Len(kids) = np + Len(subs)
           /\ \A i \in 1..np : kids[i].kind = "tuple" /\ kids[i].k \in kept
           /\ \A i, j \in 1..np : i < j => TextLess(kids[i].k, kids[j].k)
           /\ \A j \in 1..Len(subs) : kids[np + j] = subs[j]

\* Two kept keys inserted in descending order, and two sub-tasks.
ChildrenSortedWitness ==
    /\ pc = "return" /\ res.fn = "get_children" /\ arg.kind = "task"
    /\ Len(arg.task) >= 2
    /\ TextLess(arg.task[2][1], arg.task[1][1])
    /\ {arg.task[1][1], arg.task[2][1]} \cap IgnoredKeys(cfg) = {}
    /\ Len(arg.children) = 2

\* C2: in a render call no node reached through get_children is a
\* (key, value) child whose key is ignored, at the top level of a task and in
\* nested records at every depth, and the value of an ignored key is never
\* handed to the formatter.
IgnoredKeysNeverReached ==
    \A i \in 1..Len(trace) :
        LET e == trace[i]
        IN  /\ (e.depth > 0 /\ e.node.kind = "tuple") => e.node.k \notin IgnoredKeys(cfg)
            /\ \A j \in 1..Len(e.children) :
                  e.children[j].kind = "tuple" => e.children[j].k \notin IgnoredKeys(cfg)
            /\ \A j \in 1..Len(e.calls) : e.calls[j][1] \notin IgnoredKeys(cfg)

\* A task with a nested record under an ignored key, and a nested record
\* below the top level that has an ignored key.
IgnoredKeysWitness ==
    /\ pc = "done"
    /\ \E i \in 1..Len(trace) :
          /\ trace[i].node.kind = "task"
          /\ \E j \in 1..Len(trace[i].node.task) :
                /\ trace[i].node.task[j][1] \in IgnoredKeys(cfg)
                /\ trace[i].node.task[j][2].kind = "dict"
    /\ \E i \in 1..Len(trace) :
          /\ trace[i].depth >= 2
          /\ trace[i].node.kind = "tuple" /\ trace[i].node.v.kind = "dict"
          /\ \E j \in 1..Len(trace[i].node.v.items) :
                trace[i].node.v.items[j][1] \in IgnoredKeys(cfg)

\* C3: the formatter dispatches, then truncates, then escapes: with
\* field_limit 0 the result is the escaped dispatch text; with field_limit
\* N > 0 a dispatch text longer than N gives its first N characters, escaped,
\* and one truncation marker, and a shorter one gives the escaped text.
FormatterTruncatesThenEscapes ==
    pc = "return"
    => LET d == dispatch(cfg.human_readable, cfg.encoding, arg.value, arg.key).s
           N == cfg.field_limit
       IN  res = Text(IF N > 0 /\ Len(d) > N
                      THEN Escaped(SubSeq(d, 1, N)) \o <<8230>>
                      ELSE Escaped(d))

\* A text longer than the limit with a control character in the part kept.
FormatterTruncatesWitness ==
    /\ pc = "return"
    /\ cfg.field_limit > 0
    /\ arg.value.kind = "text"
    /\ Len(arg.value.s) > cfg.field_limit
    /\ arg.value.s[1] = 27

\* C4: _escape_control_characters keeps the length and changes only control
\* characters: 0x00..0x1F but 0x0A become U+2400 + c, 0x7F becomes U+2421,
\* 0x0A and everything else stay; the empty text stays empty and a number is
\* first converted to text.
EscapeReplacesOnlyControls ==
    pc = "return"
    => LET t == IF arg.kind = "text" THEN arg.s ELSE Digits(arg.n)
       IN  /\ res.kind = "text"
           /\ Len(res.s) = Len(t)
           /\ \A i \in 1..Len(t) : res.s[i] = ControlPicture(t[i])

\* A line feed next to another control character.
EscapeWitness ==
    /\ pc = "return"
    /\ arg.kind = "text"
    /\ Len(arg.s) = 2
    /\ arg.s[1] = 10
    /\ arg.s[2] \in {27, 127}

\* C5: the name of a TaskNode is its escaped name in the success role when
\* success is true, in the failure role when it is false and bare when it is
\* unknown, at every depth; without colorization the name is the bare
\* escaped name for all three.
TaskNameColoredBySuccess ==
    \A i \in 1..Len(trace) :
        LET e == trace[i]
            n == Escaped(e.node.name)
        IN  e.node.kind = "task"
            => e.name = Text(IF ~cfg.colorize THEN n
                             ELSE IF e.node.success = "True" THEN InSuccessRole(n)
                             ELSE IF e.node.success = "False" THEN InFailureRole(n)
                             ELSE n)

\* Colorized, a successful task below the root pair and one a level deeper.
TaskNameWitness ==
    /\ pc = "done"
    /\ cfg.colorize
    /\ \E i, j \in 1..Len(trace) :
          /\ trace[i].node.kind = "task" /\ trace[j].node.kind = "task"
          /\ trace[i].node.success = "True" /\ trace[j].node.success = "True"
          /\ trace[i].depth = 1 /\ trace[j].depth = 2

\* C6, as stated: get_children of a pair whose value is no nested record
\* (text, binary data or any other value) is empty.
ScalarPairHasNoChildren ==
    \A i \in 1..Len(trace) :
        (trace[i].node.kind = "tuple" /\ trace[i].node.v.kind # "dict")
        => trace[i].children = <<>>

\* C6, amended: get_children of a pair whose value is text is empty; a pair
\* whose value is neither a nested record nor text yields that value as its
\* only child.
TextPairHasNoChildren ==
    \A i \in 1..Len(trace) :
        LET e == trace[i]
        IN  e.node.kind = "tuple"
            => /\ e.node.v.kind = "text" => e.children = <<>>
               /\ e.node.v.kind \notin {"dict", "text"} => e.children = <<e.node.v>>

\* A formatted property below a task and the root pair above it.
TextPairWitness ==
    /\ pc = "done"
    /\ \E i, j \in 1..Len(trace) :
          /\ trace[i].node.kind = "tuple" /\ trace[i].node.v.kind = "text"
          /\ trace[i].depth = 2
          /\ trace[j].node.kind = "tuple" /\ trace[j].node.v.kind = "task"

BinaryDecodedWithCallEncoding ==
    \A i \in 1..Len(trace) :
        \A j \in 1..Len(trace[i].calls) :
            LET key == trace[i].calls[j][1]
                value == trace[i].calls[j][2]
            IN  (cfg.fn = "render_task_nodes" /\ value.kind = "bytes")
                => Tuple(key, _default_value_formatter(cfg.human_readable,
                                cfg.field_limit, cfg.encoding, value, key))
                   \in Range(trace[i].children)

\* C9, as stated: get_name and get_children never return for a node that is
\* not a leaf text, a pair holding a nested record or text, or a TaskNode.
UnrecognizedShapeNeverReturns ==
    \A i \in 1..Len(trace) :
        LET n == trace[i].node
        IN  \/ n.kind = "text"
            \/ n.kind = "tuple" /\ n.v.kind \in {"dict", "text"}
            \/ n.kind = "task"

\* C9, amended: get_name and get_children raise AttributeError for a node
\* that is neither text, nor a pair, nor a TaskNode, and the error ends the
\* render call with nothing written for that root; a pair whose value is
\* neither a nested record nor text is not refused.
OpaqueNodeRaises ==
    /\ \A i \in 1..Len(trace) : IsNode(trace[i].node)
    /\ \A i \in 1..Len(trace) :
          (\E j \in 1..Len(trace[i].children) : ~IsNode(trace[i].children[j]))
          => /\ pc = "raised" /\ res.fn = "format_tree"
             /\ trace[i].root = idx
             /\ Len(out) = 2 * (idx - 1)
    /\ (pc = "raised" /\ res.fn = "format_tree")
       => ~IsNode(res.node) /\ res.exc = "AttributeError"

\* The second root has a child that is no node; the first was written.
OpaqueNodeWitness ==
    /\ pc = "raised"
    /\ res.fn = "format_tree"
    /\ res.exc = "AttributeError"
    /\ idx = 2
    /\ Len(out) = 2

\* C10: the root handed to the pretty-printer is the (identifier, TaskNode)
\* pair: its name is the escaped identifier in the root role, used nowhere
\* else, its only child is the TaskNode, and the TaskNode's name, properties
\* and sub-tasks are drawn below the identifier line.
RootIsTheIdentifierPair ==
    \A i \in 1..Len(trace) :
        LET e == trace[i]
        IN  /\ e.depth = 0 => e.node = nodes[e.root] /\ e.parent = 0
            /\ (e.depth = 0 /\ e.node.v.kind = "task")
               => /\ e.name = Text(IF cfg.colorize
                                   THEN InRootRole(Escaped(e.node.k))
                                   ELSE Escaped(e.node.k))
                  /\ e.children = <<e.node.v>>
                  /\ i < Len(trace)
                  /\ trace[i + 1].node = e.node.v
                  /\ trace[i + 1].depth = 1
                  /\ \A j \in 1..Len(trace) : trace[j].parent = i => j = i + 1
            /\ e.depth > 0
               => /\ e.parent \in 1..(i - 1)
                  /\ trace[e.parent].depth = e.depth - 1
                  /\ trace[e.parent].root = e.root
                  /\ e.node \in Range(trace[e.parent].children)
            /\ (e.depth > 0 /\ cfg.colorize)
               => ~StartsWith(e.name.s, <<27, 91, 49, 109>>)
            /\ (e.node.kind = "task" /\ e.depth = 1
                   /\ ~(pc = "raised" /\ e.root = idx))
               => Cardinality({j \in 1..Len(trace) : trace[j].parent = i}) = Len(e.children)

\* Colorized, a task with properties and sub-tasks under its identifier.
RootPairWitness ==
    /\ pc = "done"
    /\ cfg.colorize
    /\ \E i, j \in 1..Len(trace) :
          /\ trace[i].depth = 2 /\ trace[i].node.kind = "task"
          /\ trace[j].depth = 2 /\ trace[j].node.kind = "tuple"
          /\ trace[i].parent = trace[j].parent
====
